---------------------------- MODULE Spec2Model ----------------------------
(***************************************************************************)
(* Model of the RetailIQ ETL script src/preprocessing.py: raw CSV -> clean *)
(* -> category normalisation -> features -> quality filter -> SQLite.      *)
(*                                                                         *)
(* Text cells are sequences of one-character strings.  A float is a fixed- *)
(* point integer: the value times Scale.  The feature columns that need    *)
(* binary floating-point arithmetic (discount_percent, price_savings,      *)
(* popularity_score) are not modelled.                                     *)
(***************************************************************************)
EXTENDS Integers, Sequences, FiniteSets, TLC

(* ------------------------------ bounds -------------------------------- *)
\* rows in the input file
MaxRows == 2
\* invocations of the script on the same input file
MaxRuns == 2
\* decimal places a modelled float keeps
MaxDecimals == 2

RECURSIVE Pow10(_)
Pow10(n) == IF n = 0 THEN 1 ELSE 10 * Pow10(n - 1)

Scale == Pow10(MaxDecimals)

(* ------------------------- values and characters ---------------------- *)
\* the missing cell pd.read_csv yields for an empty field (float nan)
NaN == <<"NaN">>
\* a null in a text column of the DataFrame / the SQLite table
NULL == "NULL"

Digits == {"0", "1", "2", "3", "4", "5", "6", "7", "8", "9"}

DigitVal(c) ==
    CASE c = "0" -> 0 [] c = "1" -> 1 [] c = "2" -> 2 [] c = "3" -> 3
      [] c = "4" -> 4 [] c = "5" -> 5 [] c = "6" -> 6 [] c = "7" -> 7
      [] c = "8" -> 8 [] c = "9" -> 9

Whitespace == {" "}

\* str.lower() on the characters the inputs use
Lower(c) ==
    CASE c = "A" -> "a" [] c = "B" -> "b" [] c = "C" -> "c" [] c = "E" -> "e"
      [] c = "F" -> "f" [] c = "G" -> "g" [] c = "H" -> "h" [] c = "K" -> "k"
      [] c = "L" -> "l" [] c = "M" -> "m" [] c = "O" -> "o" [] c = "P" -> "p"
      [] c = "R" -> "r" [] c = "T" -> "t" [] c = "V" -> "v" [] c = "W" -> "w"
      [] c = "Z" -> "z"
      [] OTHER -> c

\* str(x): a missing cell prints as "nan"
str(x) == IF x = NaN THEN <<"n", "a", "n">> ELSE x

RECURSIVE IntOf(_)
\* the integer a sequence of digits denotes (0 for the empty sequence)
IntOf(ds) ==
    IF ds = <<>> THEN 0
    ELSE 10 * IntOf(SubSeq(ds, 1, Len(ds) - 1)) + DigitVal(ds[Len(ds)])

Count(s, c) == Cardinality({i \in DOMAIN s : s[i] = c})

\* position of the first c in s, Len(s) + 1 when there is none
Find(s, c) ==
    IF \E i \in DOMAIN s : s[i] = c
    THEN CHOOSE i \in DOMAIN s : s[i] = c /\ \A j \in 1..(i - 1) : s[j] # c
    ELSE Len(s) + 1

\* the first MaxDecimals digits of a fraction, right-padded with zeros
FracValue(fs) ==
    IntOf([i \in 1..MaxDecimals |-> IF i <= Len(fs) THEN fs[i] ELSE "0"])

\* a sequence of digits with at most one decimal point and at least one digit
IsDecimal(s) ==
    /\ \A i \in DOMAIN s : s[i] \in Digits \cup {"."}
    /\ Count(s, ".") <= 1
    /\ \E i \in DOMAIN s : s[i] \in Digits

\* the fixed-point value of a decimal literal
DecimalValue(s) ==
    LET dot == Find(s, ".")
    IN  IntOf(SubSeq(s, 1, dot - 1)) * Scale + FracValue(SubSeq(s, dot + 1, Len(s)))

(* --------------------------- 3. cleaning helpers ---------------------- *)
\* re.sub(r"[^\d.]", "", s)
StripNonNumeric(s) == SelectSeq(s, LAMBDA c : c \in Digits \cup {"."})

\* float(s) of a string of digits and points, or of the int 0:
\* a ValueError when s is no float literal
float(s) ==
    IF IsDecimal(s)
    THEN [raised |-> FALSE, value |-> DecimalValue(s)]
    ELSE [raised |-> TRUE, value |-> 0]

clean_price(x) ==
    IF x = NaN THEN [raised |-> FALSE, value |-> 0]
    ELSE LET s == StripNonNumeric(str(x))
         IN  IF s = <<>> THEN [raised |-> FALSE, value |-> 0]
             ELSE float(s)

RECURSIVE lstrip(_)
lstrip(s) == IF s # <<>> /\ Head(s) \in Whitespace THEN lstrip(Tail(s)) ELSE s

RECURSIVE rstrip(_)
rstrip(s) ==
    IF s # <<>> /\ s[Len(s)] \in Whitespace
    THEN rstrip(SubSeq(s, 1, Len(s) - 1)) ELSE s

clean_text(x) ==
    IF x = NaN THEN <<>>
    ELSE LET t == rstrip(lstrip(str(x))) IN [i \in DOMAIN t |-> Lower(t[i])]

(* ------------------------ 4. numeric coercion ------------------------- *)
\* pd.to_numeric(x, errors="coerce") of one cell: an optionally signed
\* decimal parses, a missing cell and everything else become NaN
to_numeric(x) ==
    IF x = NaN \/ x = <<>> THEN [nan |-> TRUE, value |-> 0]
    ELSE LET signed == Head(x) \in {"-", "+"}
             body   == IF signed THEN Tail(x) ELSE x
             sign   == IF Head(x) = "-" THEN -1 ELSE 1
         IN  IF IsDecimal(body)
             THEN [nan |-> FALSE, value |-> sign * DecimalValue(body)]
             ELSE [nan |-> TRUE, value |-> 0]

\* Series.fillna(d) of one numeric cell
fillna(v, d) == IF v.nan THEN d ELSE v.value

\* Series.astype(int) of one float cell: truncation toward zero
astype_int(v) == IF v >= 0 THEN v \div Scale ELSE -((-v) \div Scale)

\* .astype(str).str.replace(",", "", regex=True) of one cell
remove_commas(x) == SelectSeq(str(x), LAMBDA c : c # ",")

clean_rating(x) == fillna(to_numeric(x), 0)

clean_rating_count(x) == astype_int(fillna(to_numeric(remove_commas(x)), 0))

(* ---------------------- 5. category normalisation --------------------- *)
\* .str.split("|").str[0]
first_segment(s) == SubSeq(s, 1, Find(s, "|") - 1)

category_map ==
    << <<<<"e", "l", "e", "c", "t", "r", "o", "n", "i", "c", "s">>, "Electronics">>,
       <<<<"c", "o", "m", "p", "u", "t", "e", "r", "s", "&", "a", "c", "c", "e", "s", "s", "o", "r", "i", "e", "s">>, "Computers">>,
       <<<<"h", "o", "m", "e", "&", "k", "i", "t", "c", "h", "e", "n">>, "Home & Kitchen">>,
       <<<<"h", "e", "a", "l", "t", "h", "&", "p", "e", "r", "s", "o", "n", "a", "l", "c", "a", "r", "e">>, "Personal Care">>,
       <<<<"o", "f", "f", "i", "c", "e", "p", "r", "o", "d", "u", "c", "t", "s">>, "Stationery">>,
       <<<<"h", "o", "m", "e", "i", "m", "p", "r", "o", "v", "e", "m", "e", "n", "t">>, "Home Improvement">>,
       <<<<"t", "o", "y", "s", "&", "g", "a", "m", "e", "s">>, "Toys & Games">>,
       <<<<"m", "u", "s", "i", "c", "a", "l", "i", "n", "s", "t", "r", "u", "m", "e", "n", "t", "s">>, "Musical Instruments">>,
       <<<<"c", "a", "r", "&", "m", "o", "t", "o", "r", "b", "i", "k", "e">>, "Automotive">> >>

\* Series.map(category_map) of one cell: a key outside the dict maps to null
map_category(key) ==
    IF \E i \in DOMAIN category_map : category_map[i][1] = key
    THEN category_map[CHOOSE i \in DOMAIN category_map : category_map[i][1] = key][2]
    ELSE NULL

\* Series.fillna(d) of one text cell
fillna_text(v, d) == IF v = NULL THEN d ELSE v

\* mutant: the fillna("Other") is left out
main_category_without_fillna(raw) == map_category(raw)

main_category(raw) == fillna_text(map_category(raw), "Other")

(* ------------------------ 6. feature engineering ---------------------- *)
bins == <<0, 500, 1000, 2000, 5000, 10000, 999999>>

labels == <<"budget", "low", "mid", "upper-mid", "premium", "luxury">>

\* mutant: pd.cut(..., right=False), bin i is [bins[i], bins[i+1])
cut_right_false(x) ==
    IF \E i \in DOMAIN labels : bins[i] * Scale <= x /\ x < bins[i + 1] * Scale
    THEN labels[CHOOSE i \in DOMAIN labels :
                    bins[i] * Scale <= x /\ x < bins[i + 1] * Scale]
    ELSE NULL

\* pd.cut(x, bins, labels) with the default right=True, include_lowest=False:
\* bin i is (bins[i], bins[i+1]], a value in no bin gets null
cut(x) ==
    IF \E i \in DOMAIN labels : bins[i] * Scale < x /\ x <= bins[i + 1] * Scale
    THEN labels[CHOOSE i \in DOMAIN labels :
                    bins[i] * Scale < x /\ x <= bins[i + 1] * Scale]
    ELSE NULL

(* -------------------------- 7. remove bad data ------------------------ *)
RECURSIVE Filter(_, _)
\* boolean-mask selection df[mask]: the rows whose position is in keep
Filter(rows, keep) ==
    IF rows = <<>> THEN <<>>
    ELSE LET n == Len(rows)
             front == Filter(SubSeq(rows, 1, n - 1), keep)
         IN  IF n \in keep THEN Append(front, rows[n]) ELSE front

\* mutant: actual_price >= 0 in place of > 0
nonnegative_actual(rows) == Filter(rows, {i \in DOMAIN rows : rows[i].actual_price >= 0})

positive_actual(rows) == Filter(rows, {i \in DOMAIN rows : rows[i].actual_price > 0})

nonnegative_discounted(rows) ==
    Filter(rows, {i \in DOMAIN rows : rows[i].discounted_price >= 0})

dedup_key(r) == <<r.product_name, r.discounted_price>>

\* mutant: drop_duplicates(..., keep="last")
drop_duplicates_keep_last(rows) ==
    Filter(rows, {i \in DOMAIN rows :
                    \A j \in (i + 1)..Len(rows) : dedup_key(rows[j]) # dedup_key(rows[i])})

\* drop_duplicates(subset=[product_name, discounted_price]), keep="first"
drop_duplicates(rows) ==
    Filter(rows, {i \in DOMAIN rows :
                    \A j \in 1..(i - 1) : dedup_key(rows[j]) # dedup_key(rows[i])})

remove_bad_data(rows) == drop_duplicates(nonnegative_discounted(positive_actual(rows)))

(* ------------------------ 8. final dataset ---------------------------- *)
\* the column projection; to_sql(index=False) leaves the index out
final_row(r) ==
    [product_name     |-> r.product_name,
     category         |-> r.category,
     main_category    |-> r.main_category,
     discounted_price |-> r.discounted_price,
     actual_price     |-> r.actual_price,
     rating           |-> r.rating,
     rating_count     |-> r.rating_count,
     price_bucket     |-> r.price_bucket]

(* ---------------------------- 9. the store ---------------------------- *)
AllIndexes == {"idx_main_category", "idx_rating", "idx_price"}

NoTable == [exists |-> FALSE, rows |-> <<>>, indexes |-> {}]

\* mutant: if_exists="append", the existing table is kept
keep_table(s) == s

\* DROP TABLE sales: the table goes with its rows and its indexes
drop_table(s) == NoTable

\* CREATE TABLE sales (...)
execute_create(s) == [s EXCEPT !.exists = TRUE]

\* INSERT INTO sales VALUES ...: the rows are appended
insert(s, rows) == [s EXCEPT !.rows = s.rows \o rows]

\* CREATE INDEX IF NOT EXISTS name ON sales(...)
create_index(s, name) == [s EXCEPT !.indexes = s.indexes \cup {name}]

(* ------------------------------ inputs -------------------------------- *)
RawRow(name, cat, dp, ap, rt, rc) ==
    [product_name |-> name, category |-> cat, discounted_price |-> dp,
     actual_price |-> ap, rating |-> rt, rating_count |-> rc]

\* the rows an input file is drawn from
RawRows ==
    { RawRow(<<"W", "i", "r", "e", "l", "e", "s", "s", " ", "M", "o", "u", "s", "e">>, <<"E", "l", "e", "c", "t", "r", "o", "n", "i", "c", "s", "|", "A", "c", "c", "e", "s", "s", "o", "r", "i", "e", "s", "|", "M", "i", "c", "e">>,
             <<"R", "s", "4", "9", "9">>, <<"R", "s", "9", "9", "9">>, <<"4", ".", "3">>, <<"1", ",", "2", "3", "4">>),
      RawRow(<<" ", "w", "i", "r", "e", "l", "e", "s", "s", " ", "m", "o", "u", "s", "e", " ">>, <<"C", "o", "m", "p", "u", "t", "e", "r", "s", "&", "A", "c", "c", "e", "s", "s", "o", "r", "i", "e", "s", "|", "M", "i", "c", "e">>,
             <<"4", "9", "9", ".", "0", "0">>, <<"R", "s", "1", ",", "2", "9", "9">>, <<"4", ".", "0">>, <<"1", "2">>),
      RawRow(<<"C", "a", "b", "l", "e">>, <<"H", "o", "m", "e", "&", "K", "i", "t", "c", "h", "e", "n", "|", "C", "a", "b", "l", "e", "s">>, <<"5", "0", "0">>, <<"1", ",", "0", "0", "0">>, <<"|">>, <<"-", "5">>),
      RawRow(<<"C", "a", "b", "l", "e">>, <<"u", "n", "k", "n", "o", "w", "n", "t", "y", "p", "e", "|", "f", "o", "o">>, <<"R", "s", "1", ",", "0", "0", "0">>, <<"R", "s", "2", ",", "0", "0", "0">>, <<"3", ".", "5">>, <<"a", "b", "c">>),
      RawRow(<<"L", "a", "m", "p">>, NaN, <<"2", "0", "0", "0">>, <<"5", "0", "0", "0">>, NaN, NaN),
      RawRow(<<"L", "a", "m", "p">>, <<"O", "f", "f", "i", "c", "e", "P", "r", "o", "d", "u", "c", "t", "s">>, <<"5", "0", "0", "0", ".", "0", "0">>, <<"1", "0", "0", "0", "0">>, <<"5">>, <<"7", ".", "9">>),
      RawRow(<<"T", "V">>, <<" ", "E", "l", "e", "c", "t", "r", "o", "n", "i", "c", "s", " ", "|", "T", "V">>, <<"1", "0", ",", "0", "0", "0">>, <<"9", "9", "9", ",", "9", "9", "9">>, <<"4", ".", "1">>, <<"1", ",", "0", "0", "0">>),
      RawRow(<<"T", "V">>, <<"T", "o", "y", "s", "&", "G", "a", "m", "e", "s">>, <<"9", "9", "9", "9", "9", "9">>, <<"1", "0", "0", "0", "0", "0", "0">>, <<"2">>, <<"3">>),
      RawRow(<<"T", "V">>, <<"C", "a", "r", "&", "M", "o", "t", "o", "r", "b", "i", "k", "e", "|", "T", "V">>, <<"1", "0", "0", "0", "0", "0", "0", ".", "5">>, <<"2", "0", "0", "0", "0", "0", "0">>, <<"1">>, <<"1">>),
      RawRow(<<"F", "r", "e", "e", " ", "G", "i", "f", "t">>, <<"H", "e", "a", "l", "t", "h", "P", "e", "r", "s", "o", "n", "a", "l", "C", "a", "r", "e">>, <<"R", "s", "0">>, <<"R", "s", "1", "0", "0">>, <<"4", ".", "5">>, <<"1", "0">>),
      RawRow(<<"Z", "e", "r", "o">>, <<"E", "l", "e", "c", "t", "r", "o", "n", "i", "c", "s">>, <<"0">>, <<"0">>, <<"3">>, <<"2">>),
      RawRow(<<"B", "a", "d">>, <<"E", "l", "e", "c", "t", "r", "o", "n", "i", "c", "s">>, <<"R", "s", ".", "1", ",", "2", "9", "9", ".", "0", "0">>, <<"1", ".", "2", ".", "3">>, <<"3">>, <<"2">>),
      RawRow(NaN, NaN, NaN, <<"f", "r", "e", "e">>, <<"x">>, <<>>) }

\* the files of 1..MaxRows rows
CsvFiles == UNION {[1..n -> RawRows] : n \in 1..MaxRows}

\* a table an earlier writer left in the store
LegacyTable ==
    [exists |-> TRUE,
     rows |-> << [product_name |-> <<"o", "l", "d">>, category |-> <<"o", "l", "d">>,
                  main_category |-> "Other", discounted_price |-> 100 * Scale,
                  actual_price |-> 200 * Scale, rating |-> 0, rating_count |-> 0,
                  price_bucket |-> "budget"] >>,
     indexes |-> AllIndexes]

(* ------------------------------- state -------------------------------- *)
VARIABLES
    file_exists,   \* os.path.exists(csv_path)
    csv,           \* the rows of the input file
    df,            \* the DataFrame
    final_df,      \* the projected DataFrame
    pc,            \* the script's position
    conn,          \* the connection: "none", "open", "closed"
    pending,       \* rows inserted in the connection's open transaction
    store,         \* the committed contents of the database file
    run,           \* the number of the current invocation
    before,        \* the store when the current invocation started
    prev           \* how the previous invocation ended

vars == <<file_exists, csv, df, final_df, pc, conn, pending, store, run, before, prev>>

Init ==
    /\ file_exists \in BOOLEAN
    /\ csv \in IF file_exists THEN CsvFiles ELSE {<<>>}
    /\ df = <<>>
    /\ final_df = <<>>
    /\ pc = "start"
    /\ conn = "none"
    /\ pending = <<>>
    /\ store \in {NoTable, LegacyTable}
    /\ run = 1
    /\ before = store
    /\ prev = "none"

\* a step of the in-memory part of the script
Step(from, to, newdf) ==
    /\ pc = from
    /\ pc' = to
    /\ df' = newdf
    /\ UNCHANGED <<file_exists, csv, final_df, conn, pending, store, run, before, prev>>

(* ----------------------------- 2. load data --------------------------- *)
\* pd.read_csv: the rows under a RangeIndex
read_csv(rows) == [i \in DOMAIN rows |-> rows[i] @@ [index |-> i - 1]]

\* mutant: a missing file is read as an empty frame
LoadDataWithoutCheck ==
    Step("start", "loaded", IF file_exists THEN read_csv(csv) ELSE <<>>)

LoadData ==
    IF ~file_exists
    THEN Step("start", "file_not_found", df)
    ELSE Step("start", "loaded", read_csv(csv))

(* ---------------------------- 4. core cleaning ------------------------ *)
PriceRaises(rows) ==
    \E i \in DOMAIN rows :
        \/ clean_price(rows[i].discounted_price).raised
        \/ clean_price(rows[i].actual_price).raised

clean_prices(r) ==
    [r EXCEPT !.discounted_price = clean_price(@).value,
              !.actual_price = clean_price(@).value]

clean_ratings(r) ==
    [r EXCEPT !.rating = clean_rating(@),
              !.rating_count = clean_rating_count(@)]

clean_texts(r) ==
    [r EXCEPT !.product_name = clean_text(@),
              !.category = clean_text(@)]

normalize_category(r) ==
    LET raw == first_segment(r.category)
    IN  r @@ [main_category_raw |-> raw, main_category |-> main_category(raw)]

create_features(r) == r @@ [price_bucket |-> cut(r.discounted_price)]

\* apply(f) over a column: an exception in any row ends the script
CleanPrices ==
    /\ pc = "loaded"
    /\ IF PriceRaises(df)
       THEN Step("loaded", "value_error", df)
       ELSE Step("loaded", "prices", [i \in DOMAIN df |-> clean_prices(df[i])])

CleanRatings == Step("prices", "ratings", [i \in DOMAIN df |-> clean_ratings(df[i])])

CleanText == Step("ratings", "text", [i \in DOMAIN df |-> clean_texts(df[i])])

NormalizeCategories ==
    Step("text", "categories", [i \in DOMAIN df |-> normalize_category(df[i])])

CreateFeatures ==
    Step("categories", "features", [i \in DOMAIN df |-> create_features(df[i])])

RemoveBadData == Step("features", "filtered", remove_bad_data(df))

FinalDataset ==
    /\ pc = "filtered"
    /\ pc' = "final"
    /\ final_df' = [i \in DOMAIN df |-> final_row(df[i])]
    /\ UNCHANGED <<file_exists, csv, df, conn, pending, store, run, before, prev>>

(* --------------------------- 9. save to SQLite ------------------------ *)
Save(from, to, newconn, newpending, newstore) ==
    /\ pc = from
    /\ pc' = to
    /\ conn' = newconn
    /\ pending' = newpending
    /\ store' = newstore
    /\ UNCHANGED <<file_exists, csv, df, final_df, run, before, prev>>

Connect == Save("final", "connected", "open", pending, store)

\* to_sql(if_exists="replace"): an existing table is dropped; the statement
\* runs outside a transaction and is durable at once
ToSqlDrop ==
    Save("connected", "dropped", conn, pending,
         IF store.exists THEN drop_table(store) ELSE store)

\* to_sql: the table is created and the creation committed
ToSqlCreate == Save("dropped", "created", conn, pending, execute_create(store))

\* to_sql: the INSERT opens a transaction that holds the rows
ToSqlInsert == Save("created", "inserted", conn, final_df, store)

\* to_sql: the transaction of the INSERT is committed
ToSqlCommit == Save("inserted", "written", conn, <<>>, insert(store, pending))

CreateIndexMainCategory ==
    Save("written", "idx1", conn, pending, create_index(store, "idx_main_category"))

CreateIndexRating ==
    Save("idx1", "idx2", conn, pending, create_index(store, "idx_rating"))

CreateIndexPrice ==
    Save("idx2", "idx3", conn, pending, create_index(store, "idx_price"))

Commit == Save("idx3", "committed", conn, pending, store)

Close == Save("committed", "done", "closed", pending, store)

SavePcs == {"final", "connected", "dropped", "created", "inserted", "written",
            "idx1", "idx2", "idx3"}

\* a statement of the save step raises (store unwritable, disk full): the
\* script ends, the open transaction is rolled back
PersistFail ==
    /\ pc \in SavePcs
    /\ pc' = "persist_error"
    /\ pending' = <<>>
    /\ UNCHANGED <<file_exists, csv, df, final_df, conn, store, run, before, prev>>

(* -------------------------- the next invocation ----------------------- *)
EndPcs == {"done", "file_not_found", "value_error", "persist_error"}

\* the script is run again on the unchanged input file
RunAgain ==
    /\ pc \in EndPcs
    /\ run < MaxRuns
    /\ run' = run + 1
    /\ prev' = pc
    /\ before' = store
    /\ pc' = "start"
    /\ df' = <<>>
    /\ final_df' = <<>>
    /\ conn' = "none"
    /\ pending' = <<>>
    /\ UNCHANGED <<file_exists, csv, store>>

Next ==
    \/ LoadData
    \/ CleanPrices
    \/ CleanRatings
    \/ CleanText
    \/ NormalizeCategories
    \/ CreateFeatures
    \/ RemoveBadData
    \/ FinalDataset
    \/ Connect
    \/ ToSqlDrop
    \/ ToSqlCreate
    \/ ToSqlInsert
    \/ ToSqlCommit
    \/ CreateIndexMainCategory
    \/ CreateIndexRating
    \/ CreateIndexPrice
    \/ Commit
    \/ Close
    \/ PersistFail
    \/ RunAgain

Spec == Init /\ [][Next]_vars

(* ======================= the expected result ========================== *)
\* the row the in-memory stages make of the raw row at position i of rows
transform(rows, i) ==
    final_row(create_features(normalize_category(clean_texts(clean_ratings(
        clean_prices(read_csv(rows)[i]))))))

\* the Quality Filter's price conditions
passes(r) == r.actual_price > 0 /\ r.discounted_price >= 0

\* the values found in a sequence
Range(f) == {f[i] : i \in DOMAIN f}

\* the positions of a table's rows with a key
Holding(rows, k) == {n \in DOMAIN rows : dedup_key(rows[n]) = k}

BucketLabels == Range(labels)

CategoryNames == {category_map[k][2] : k \in DOMAIN category_map}

CategoryKeys == {category_map[k][1] : k \in DOMAIN category_map}

\* the store a complete run on the current input leaves
NewStore == [exists |-> TRUE, rows |-> final_df, indexes |-> AllIndexes]

(* ============================== claims ================================ *)

\* C1 (as claimed): in every state of the store, the sales table is either
\* the complete contents it had before the run or the complete new contents
\* with its three indexes; never missing, empty or partial.
C1_AtomicReplace == store = before \/ store = NewStore

\* C2: when the input file does not exist the run ends with the
\* file-not-found error before any cleaning step: no frame is built, no
\* connection is opened and the store is as it was before the run.
C2_MissingFileAborts ==
    (~file_exists /\ pc # "start") =>
        /\ pc = "file_not_found"
        /\ df = <<>> /\ final_df = <<>>
        /\ conn = "none" /\ pending = <<>>
        /\ store = before

C2_Witness == ~file_exists /\ pc = "file_not_found" /\ store = LegacyTable

\* the label of the bin [lo, hi) that holds p (the open-ended last bin has no hi)
HalfOpenLabel(p) ==
    CASE p < 500 * Scale -> "budget"
      [] 500 * Scale <= p /\ p < 1000 * Scale -> "low"
      [] 1000 * Scale <= p /\ p < 2000 * Scale -> "mid"
      [] 2000 * Scale <= p /\ p < 5000 * Scale -> "upper-mid"
      [] 5000 * Scale <= p /\ p < 10000 * Scale -> "premium"
      [] OTHER -> "luxury"

\* the label of the bin (lo, hi] that holds p, null when no bin does
RightClosedLabel(p) ==
    CASE 0 < p /\ p <= 500 * Scale -> "budget"
      [] 500 * Scale < p /\ p <= 1000 * Scale -> "low"
      [] 1000 * Scale < p /\ p <= 2000 * Scale -> "mid"
      [] 2000 * Scale < p /\ p <= 5000 * Scale -> "upper-mid"
      [] 5000 * Scale < p /\ p <= 10000 * Scale -> "premium"
      [] 10000 * Scale < p /\ p <= 999999 * Scale -> "luxury"
      [] OTHER -> NULL

CutPoints == {500 * Scale, 1000 * Scale, 2000 * Scale, 5000 * Scale, 10000 * Scale}

\* C3 (as claimed), on the prices a bin of the code holds: the price_bucket
\* of every discounted_price p is the label of the half-open bin [lo, hi)
\* holding p, so a price at a cut point is in the higher bucket.
C3_HalfOpenBins ==
    pc = "features" =>
        \A i \in DOMAIN df :
            LET p == df[i].discounted_price
            IN  (0 < p /\ p <= 999999 * Scale) => df[i].price_bucket = HalfOpenLabel(p)

\* C3 (amended): the price_bucket of every discounted_price p is the label
\* of the right-closed bin holding p among (0,500], (500,1000], (1000,2000],
\* (2000,5000], (5000,10000], (10000,999999], and null when no bin holds p;
\* a price at a cut point is in the lower of the two adjacent buckets.
C3_RightClosedBins ==
    pc = "features" =>
        \A i \in DOMAIN df :
            df[i].price_bucket = RightClosedLabel(df[i].discounted_price)

C3_Witness ==
    /\ pc = "features"
    /\ \E i \in DOMAIN df :
           df[i].discounted_price = 500 * Scale /\ df[i].price_bucket = "budget"
    /\ \E i \in DOMAIN df :
           df[i].discounted_price = 10000 * Scale /\ df[i].price_bucket = "premium"

\* C4 (as claimed): every row persisted to the sales table has one of the
\* six price_bucket labels, never null.
C4_BucketTotal ==
    pc = "done" => \A n \in DOMAIN store.rows : store.rows[n].price_bucket \in BucketLabels

\* C5 (as claimed): clean_price never raises: for every cell of the two
\* price columns it returns a non-negative number.
C5_CleanPriceNeverRaises ==
    pc = "loaded" =>
        \A i \in DOMAIN df :
            /\ ~clean_price(df[i].discounted_price).raised
            /\ ~clean_price(df[i].actual_price).raised
            /\ clean_price(df[i].discounted_price).value >= 0
            /\ clean_price(df[i].actual_price).value >= 0

\* C6: after a complete run, for every input row that passes the Quality
\* Filter's price conditions the sales table holds exactly one row with its
\* (product_name, discounted_price), and that row is the first such input
\* row; no two rows of the table share a key.
C6_FirstOfDuplicatesKept ==
    pc = "done" =>
        /\ \A i \in DOMAIN csv :
               LET k == dedup_key(transform(csv, i))
                   same == {j \in DOMAIN csv : /\ passes(transform(csv, j))
                                               /\ dedup_key(transform(csv, j)) = k}
                   first == CHOOSE j \in same : \A l \in same : j <= l
               IN  passes(transform(csv, i)) =>
                       /\ Cardinality(Holding(store.rows, k)) = 1
                       /\ \A n \in Holding(store.rows, k) :
                              store.rows[n] = transform(csv, first)
        /\ \A m, n \in DOMAIN store.rows :
               dedup_key(store.rows[m]) = dedup_key(store.rows[n]) => m = n

C6_Witness ==
    /\ pc = "done"
    /\ \E i, j \in DOMAIN csv :
           /\ i < j
           /\ passes(transform(csv, i)) /\ passes(transform(csv, j))
           /\ dedup_key(transform(csv, i)) = dedup_key(transform(csv, j))
           /\ transform(csv, i) # transform(csv, j)
           /\ store.rows = <<transform(csv, i)>>

\* C7: when two runs in succession on the same input file both complete,
\* the store after the second is the store after the first: the same rows
\* in the same order and the same three indexes.
C7_SecondRunSameTable ==
    (pc = "done" /\ prev = "done") => store = before

C7_Witness ==
    /\ pc = "done" /\ prev = "done" /\ run = 2
    /\ Len(store.rows) >= 2
    /\ store.indexes = AllIndexes

\* C8: the main_category of every record is one of the category names of
\* the mapping table or "Other", never null or empty: the mapped name when
\* the first segment of the breadcrumb is a key of the table, "Other" for
\* every other segment (unknown, empty, or of a missing category).
C8_MainCategoryInEnum ==
    pc = "categories" =>
        \A i \in DOMAIN df :
            LET seg == first_segment(clean_text(csv[i].category))
                mc  == df[i].main_category
            IN  /\ mc \in CategoryNames \cup {"Other"}
                /\ mc # NULL /\ mc # ""
                /\ \A k \in DOMAIN category_map :
                       seg = category_map[k][1] => mc = category_map[k][2]
                /\ seg \notin CategoryKeys => mc = "Other"

C8_Witness ==
    /\ pc = "categories"
    /\ \E i, j \in DOMAIN df :
           /\ csv[i].category = NaN /\ df[i].main_category = "Other"
           /\ df[j].main_category = "Electronics"

\* C9: after a complete run every row of the sales table has actual_price
\* > 0 and discounted_price >= 0, and an input row with both is missing
\* from the table only as the duplicate of an earlier row that is in it.
C9_QualityFilter ==
    pc = "done" =>
        /\ \A n \in DOMAIN store.rows :
               store.rows[n].actual_price > 0 /\ store.rows[n].discounted_price >= 0
        /\ \A i \in DOMAIN csv :
               passes(transform(csv, i)) =>
                   \/ transform(csv, i) \in Range(store.rows)
                   \/ \E j \in 1..(i - 1) :
                          /\ passes(transform(csv, j))
                          /\ dedup_key(transform(csv, j)) = dedup_key(transform(csv, i))
                          /\ transform(csv, j) \in Range(store.rows)

C9_Witness ==
    /\ pc = "done"
    /\ \E i, j \in DOMAIN csv :
           /\ transform(csv, i).actual_price = 0
           /\ transform(csv, i).discounted_price = 0
           /\ passes(transform(csv, j))
    /\ Len(store.rows) = 1

\* C10 (as claimed): every row persisted to the sales table has a
\* rating_count that is a non-negative integer.
C10_RatingCountNonNegative ==
    pc = "done" => \A n \in DOMAIN store.rows : store.rows[n].rating_count >= 0

=============================================================================
